---- MODULE Spec2Model ----
(***************************************************************************)
(* Model of keras_multi_head.MultiHeadAttention: the layer's              *)
(* configuration, its four weight matrices, and the operations            *)
(* __init__, get_config, compute_output_shape, compute_mask, build and    *)
(* call of keras_multi_head/multi_head_attention.py.                      *)
(***************************************************************************)
EXTENDS Integers, Sequences, FiniteSets, TLC

VARIABLES
    kwargs,     \* the keyword arguments the layer was constructed with
    layer,      \* the MultiHeadAttention instance (its attributes)
    last,       \* the last operation invoked: its argument and its outcome
    restored    \* the instance rebuilt from get_config(), None before that

vars == <<kwargs, layer, last, restored>>

----------------------------------------------------------------------------
(* Bounds of the model *)

MaxHead == 2        \* head_num ranges over 1..MaxHead
MaxDim == 4         \* trailing (feature) dimension of a value or single shape
MaxQK == 2          \* trailing dimension of a separate query or key shape
MaxSeq == 2         \* sequence length
MaxBuilds == 2      \* successful build() calls on one instance
MaxMask == 2        \* distinct mask tensors

----------------------------------------------------------------------------
(* Python values *)

\* Python's None
None == [py |-> "None"]

\* a str argument such as activation='relu'
Str(s) == [str |-> s]

\* an argument that is not a list: a tensor, a shape tuple, a mask or None
Single(x) == [list |-> FALSE, items |-> <<x>>]

\* a Python list of three: [query, key, value]
List3(q, k, v) == [list |-> TRUE, items |-> <<q, k, v>>]

\* the value of a non-list argument
Value(x) == x.items[1]

\* t[-1]
Last(t) == t[Len(t)]

\* t[:-1]
ButLast(t) == SubSeq(t, 1, Len(t) - 1)

\* a shape tuple (batch, seq, feature) with the batch dimension None
Shape(s, f) == <<None, s, f>>

----------------------------------------------------------------------------
(* keras's lookups of named strategies *)

\* a lookup by name: None stays None, a name gives the object of that name,
\* an object is returned as it is
Resolve(kind, identifier) ==
    IF identifier = None THEN None
    ELSE IF "str" \in DOMAIN identifier
         THEN [kind |-> kind, obj |-> identifier.str]
         ELSE identifier

\* keras.activations.get: None gives the linear activation
activations_get(identifier) ==
    IF identifier = None
    THEN [kind |-> "activation", obj |-> "linear"]
    ELSE Resolve("activation", identifier)

\* keras.initializers.get
initializers_get(identifier) == Resolve("initializer", identifier)

\* keras.regularizers.get
regularizers_get(identifier) == Resolve("regularizer", identifier)

\* keras.constraints.get
constraints_get(identifier) == Resolve("constraint", identifier)

----------------------------------------------------------------------------
(* MultiHeadAttention *)

\* __init__: the instance right after construction
MultiHeadAttention(kw) ==
    [ supports_masking   |-> TRUE,
      head_num           |-> kw.head_num,
      activation         |-> activations_get(kw.activation),
      kernel_initializer |-> initializers_get(kw.kernel_initializer),
      kernel_regularizer |-> regularizers_get(kw.kernel_regularizer),
      kernel_constraint  |-> constraints_get(kw.kernel_constraint),
      history_only       |-> kw.history_only,
      Wq |-> None, Wk |-> None, Wv |-> None, Wo |-> None,
      \* keras.layers.Layer.__init__(**kwargs)
      name      |-> kw.name,
      trainable |-> kw.trainable,
      built     |-> FALSE,
      \* the number of weights add_weight has created for this layer
      n_weights |-> 0 ]

\* faulty variant of get_config: kernel_constraint is filled from the
\* regularizer
get_config_swapped(self) ==
    [ head_num           |-> self.head_num,
      activation         |-> self.activation,
      kernel_initializer |-> self.kernel_initializer,
      kernel_regularizer |-> self.kernel_regularizer,
      kernel_constraint  |-> self.kernel_regularizer,
      history_only       |-> self.history_only ]
    @@ [ name |-> self.name, trainable |-> self.trainable ]

\* get_config: the layer's entries take precedence over the base entries
get_config(self) ==
    [ head_num           |-> self.head_num,
      activation         |-> self.activation,
      kernel_initializer |-> self.kernel_initializer,
      kernel_regularizer |-> self.kernel_regularizer,
      kernel_constraint  |-> self.kernel_constraint,
      history_only       |-> self.history_only ]
    @@ [ name |-> self.name, trainable |-> self.trainable ]

\* faulty variant of compute_output_shape: the list's shape ends with the
\* query's last dimension
compute_output_shape_query(self, input_shape) ==
    IF input_shape.list
    THEN LET q == input_shape.items[1]
         IN  ButLast(q) \o <<Last(q)>>
    ELSE Value(input_shape)

\* faulty variant of compute_output_shape: the list's shape lacks the last
\* dimension
compute_output_shape_dropped(self, input_shape) ==
    IF input_shape.list
    THEN LET q == input_shape.items[1]
         IN  ButLast(q)
    ELSE Value(input_shape)

\* compute_output_shape
compute_output_shape(self, input_shape) ==
    IF input_shape.list
    THEN LET q == input_shape.items[1]
             k == input_shape.items[2]
             v == input_shape.items[3]
         IN  ButLast(q) \o <<Last(v)>>
    ELSE Value(input_shape)

\* faulty variant of compute_mask: the key's mask is returned
compute_mask_key(self, inputs, input_mask) ==
    IF input_mask.list
    THEN input_mask.items[2]
    ELSE Value(input_mask)

\* compute_mask
compute_mask(self, inputs, input_mask) ==
    IF input_mask.list
    THEN input_mask.items[1]
    ELSE Value(input_mask)

\* the (q, k, v) an argument stands for: the list's three items, or the one
\* value three times
qkv(x) ==
    IF x.list
    THEN x.items
    ELSE <<Value(x), Value(x), Value(x)>>

\* faulty variant of the test: the operands of % are exchanged
InvalidHeadNum_swapped(self, feature_dim) ==
    self.head_num % feature_dim # 0

\* build's test of the head number against the feature dimension
InvalidHeadNum(self, feature_dim) ==
    feature_dim % self.head_num # 0

\* keras.layers.Layer.add_weight as build calls it, with shape, initializer
\* and name: regularizer and constraint keep their default, None
add_weight(self, shape, initializer, name) ==
    [ name        |-> name,
      shape       |-> shape,
      initializer |-> initializer,
      regularizer |-> None,
      constraint  |-> None,
      index       |-> self.n_weights + 1 ]

\* self.<attr> = self.add_weight(shape=shape, initializer=
\* self.kernel_initializer, name='%s_<attr>' % self.name)
AddKernel(self, attr, shape) ==
    LET w == add_weight(self, shape, self.kernel_initializer, <<self.name, attr>>)
    IN  [self EXCEPT ![attr] = w, !.n_weights = @ + 1]

\* faulty variant of the allocations: the fourth weight is assigned to Wv and
\* Wo stays None
Allocate_missing_Wo(self, q, k, v, feature_dim) ==
    LET s1 == AddKernel(self, "Wq", <<Last(q), feature_dim>>)
        s2 == AddKernel(s1, "Wk", <<Last(k), feature_dim>>)
        s3 == AddKernel(s2, "Wv", <<Last(v), feature_dim>>)
        s4 == AddKernel(s3, "Wv", <<feature_dim, feature_dim>>)
    IN  [s4 EXCEPT !.built = TRUE]

\* the four allocations of build, then Layer.build marking the layer built
Allocate(self, q, k, v, feature_dim) ==
    LET s1 == AddKernel(self, "Wq", <<Last(q), feature_dim>>)
        s2 == AddKernel(s1, "Wk", <<Last(k), feature_dim>>)
        s3 == AddKernel(s2, "Wv", <<Last(v), feature_dim>>)
        s4 == AddKernel(s3, "Wo", <<feature_dim, feature_dim>>)
    IN  [s4 EXCEPT !.built = TRUE]

\* faulty variant of build: Wq is allocated before the head number is tested
build_check_late(self, input_shape) ==
    LET q == qkv(input_shape)[1]
        k == qkv(input_shape)[2]
        v == qkv(input_shape)[3]
        feature_dim == Last(v)
        s1 == AddKernel(self, "Wq", <<Last(q), feature_dim>>)
    IN  IF InvalidHeadNum(s1, feature_dim)
        THEN [ raised  |-> Str("IndexError"),
               message |-> <<self.head_num, feature_dim>>,
               self    |-> s1 ]
        ELSE [ raised  |-> None,
               message |-> <<>>,
               self    |-> Allocate(self, q, k, v, feature_dim) ]

\* build: the outcome (the exception raised, or None) and the instance after
build(self, input_shape) ==
    LET q == qkv(input_shape)[1]
        k == qkv(input_shape)[2]
        v == qkv(input_shape)[3]
        feature_dim == Last(v)
    IN  IF InvalidHeadNum(self, feature_dim)
        THEN [ raised  |-> Str("IndexError"),
               message |-> <<self.head_num, feature_dim>>,
               self    |-> self ]
        ELSE [ raised  |-> None,
               message |-> <<>>,
               self    |-> Allocate(self, q, k, v, feature_dim) ]

----------------------------------------------------------------------------
(* Tensors and the backend operations call uses *)

\* one symbol of the expression a tensor was computed by
Tok(sym, a, b) == [sym |-> sym, a |-> a, b |-> b]

\* an input tensor of the given shape
Input(name, shape) == [shape |-> shape, expr |-> <<Tok(name, 0, 0)>>]

Min(a, b) == IF a < b THEN a ELSE b

\* K.dot(x, w) fails on a weight that is None or whose rows do not match
\* the trailing dimension of x
DotFails(x, w) == w = None \/ Last(x.shape) # w.shape[1]

\* K.dot(x, w)
K_dot(x, w) ==
    [ shape |-> ButLast(x.shape) \o <<w.shape[2]>>,
      expr  |-> <<Tok("dot", 0, 0)>> \o x.expr \o <<Tok(w.name[2], w.index, 0)>> ]

\* self.activation(x), skipped when the activation is None
Activate(self, x) ==
    IF self.activation # None
    THEN [x EXCEPT !.expr = <<Tok(self.activation.obj, 0, 0)>> \o @]
    ELSE x

\* x[:, :, begin:end]
SliceLast(x, begin, end) ==
    LET w  == Last(x.shape)
        lo == Min(begin, w)
        hi == Min(end, w)
    IN  [ shape |-> ButLast(x.shape) \o <<IF hi > lo THEN hi - lo ELSE 0>>,
          expr  |-> <<Tok("slice", begin, end)>> \o x.expr ]

\* the output of ScaledDotProductAttention(history_only, name)([q, k, v])
ScaledDotProductAttention(history_only, name, q, k, v) ==
    [ shape |-> ButLast(q.shape) \o <<Last(v.shape)>>,
      expr  |-> <<Tok("attention", name[3], Last(v.shape))>> ]

RECURSIVE SumWidths(_)
SumWidths(ts) ==
    IF ts = <<>> THEN 0 ELSE Last(Head(ts).shape) + SumWidths(Tail(ts))

RECURSIVE JoinExprs(_)
JoinExprs(ts) ==
    IF ts = <<>> THEN <<>> ELSE Head(ts).expr \o JoinExprs(Tail(ts))

\* K.concatenate(outputs), along the last axis
K_concatenate(outputs) ==
    [ shape |-> ButLast(outputs[1].shape) \o <<SumWidths(outputs)>>,
      expr  |-> <<Tok("concatenate", Len(outputs), 0)>> \o JoinExprs(outputs) ]

----------------------------------------------------------------------------
(* MultiHeadAttention.call *)

\* faulty variant of head_dim: the number of heads is taken for their width
head_dim_count(self, feature_dim) == self.head_num

\* head_dim = feature_dim // self.head_num
head_dim(self, feature_dim) == feature_dim \div self.head_num

\* begin, end = i * head_dim, (i + 1) * head_dim
head_slice(i, hd) == [begin |-> i * hd, end |-> (i + 1) * hd]

\* faulty variant of head_attention: history_only is left at the primitive's
\* default, False
head_attention_default_flag(self, i, hd, q, k, v) ==
    LET s    == head_slice(i, hd)
        name == <<self.name, "Att", i + 1>>
        qs   == SliceLast(q, s.begin, s.end)
        ks   == SliceLast(k, s.begin, s.end)
        vs   == SliceLast(v, s.begin, s.end)
    IN  [ i            |-> i,
          name         |-> name,
          history_only |-> FALSE,
          begin        |-> s.begin,
          end          |-> s.end,
          q |-> qs, k |-> ks, v |-> vs,
          output       |-> ScaledDotProductAttention(FALSE, name, qs, ks, vs) ]

\* one pass of call's loop: head i's invocation of the attention primitive
head_attention(self, i, hd, q, k, v) ==
    LET s    == head_slice(i, hd)
        name == <<self.name, "Att", i + 1>>
        qs   == SliceLast(q, s.begin, s.end)
        ks   == SliceLast(k, s.begin, s.end)
        vs   == SliceLast(v, s.begin, s.end)
    IN  [ i            |-> i,
          name         |-> name,
          history_only |-> self.history_only,
          begin        |-> s.begin,
          end          |-> s.end,
          q |-> qs, k |-> ks, v |-> vs,
          output       |-> ScaledDotProductAttention(self.history_only, name, qs, ks, vs) ]

\* the backend's error, raised through call unchanged
BackendError == [ raised |-> Str("BackendError") ]

\* call: the exception raised or None and, when none is raised, the returned
\* tensor, the invocations of the attention primitive in the order they were
\* made, and the concatenation of their outputs
call(self, inputs, mask) ==
    LET q0 == qkv(inputs)[1]
        k0 == qkv(inputs)[2]
        v0 == qkv(inputs)[3]
        feature_dim == Last(v0.shape)
        hd == head_dim(self, feature_dim)
    IN  IF DotFails(q0, self.Wq) \/ DotFails(k0, self.Wk) \/ DotFails(v0, self.Wv)
        THEN BackendError
        ELSE
        LET q == Activate(self, K_dot(q0, self.Wq))
            k == Activate(self, K_dot(k0, self.Wk))
            v == Activate(self, K_dot(v0, self.Wv))
            heads   == [n \in 1..self.head_num |->
                            head_attention(self, n - 1, hd, q, k, v)]
            outputs == [n \in 1..self.head_num |-> heads[n].output]
            cat     == K_concatenate(outputs)
        IN  IF DotFails(cat, self.Wo)
            THEN BackendError
            ELSE [ raised      |-> None,
                   feature_dim |-> feature_dim,
                   head_dim    |-> hd,
                   dispatched  |-> heads,
                   concat      |-> cat,
                   ret         |-> Activate(self, K_dot(cat, self.Wo)) ]

----------------------------------------------------------------------------
(* Arguments the operations are invoked with *)

Heads   == 1..MaxHead
Dims    == 1..MaxDim
QKDims  == 1..MaxQK
SeqLens == 1..MaxSeq

\* construction with the defaults of __init__ for all but head_num and
\* history_only
DefaultArgs ==
    { [ head_num           |-> h,
        activation         |-> Str("relu"),
        kernel_initializer |-> Str("glorot_normal"),
        kernel_regularizer |-> None,
        kernel_constraint  |-> None,
        history_only       |-> ho,
        name               |-> "Multi-Head",
        trainable          |-> TRUE ] : h \in Heads, ho \in BOOLEAN }

\* construction with names, objects and None for the strategies
ConfigArgs ==
    { [ head_num           |-> h,
        activation         |-> a,
        kernel_initializer |-> ini,
        kernel_regularizer |-> r,
        kernel_constraint  |-> c,
        history_only       |-> ho,
        name               |-> "Multi-Head",
        trainable          |-> TRUE ] :
      h \in Heads,
      a \in {None, Str("relu"), [kind |-> "activation", obj |-> "tanh"]},
      ini \in {Str("glorot_normal")},
      r \in {None, Str("l2")},
      c \in {None, Str("max_norm")},
      ho \in BOOLEAN }

\* shapes of one sequence length: a single shape, or [query, key, value]
BuildShapes ==
    { Single(Shape(MaxSeq, f)) : f \in Dims }
    \cup { List3(Shape(MaxSeq, fq), Shape(MaxSeq, fk), Shape(MaxSeq, fv)) :
           fq \in QKDims, fk \in QKDims, fv \in Dims }

\* tensors of those shapes
CallInputs ==
    { Single(Input("x", Shape(MaxSeq, f))) : f \in Dims }
    \cup { List3(Input("q", Shape(MaxSeq, fq)), Input("k", Shape(MaxSeq, fk)),
                 Input("v", Shape(MaxSeq, fv))) :
           fq \in QKDims, fk \in QKDims, fv \in Dims }

\* every shape within the bounds
Shapes == { Shape(s, f) : s \in SeqLens, f \in Dims }

\* a single shape, or a list of any three shapes
AllShapes ==
    { Single(x) : x \in Shapes }
    \cup { List3(q, k, v) : q \in Shapes, k \in Shapes, v \in Shapes }

\* a mask tensor, or None
Masks == {None} \cup { [mask |-> m] : m \in 1..MaxMask }

\* a single mask (or None), or a list of three
AllMasks ==
    { Single(m) : m \in Masks }
    \cup { List3(mq, mk, mv) : mq \in Masks, mk \in Masks, mv \in Masks }

\* self-attention arguments: a single shape, tensor or mask
SelfShapes == { Single(x) : x \in Shapes }
SelfInputs == { Single(Input("x", x)) : x \in Shapes }
SelfMasks  == { Single(m) : m \in Masks }

\* the list [x, x, x] for a single argument x
Thrice(x) == List3(Value(x), Value(x), Value(x))

----------------------------------------------------------------------------
(* Operations *)

\* layer = MultiHeadAttention(**kw)
Construct(kw) ==
    /\ kwargs = kw
    /\ layer = MultiHeadAttention(kw)
    /\ last = [op |-> "__init__"]
    /\ restored = None

\* layer.build(input_shape)
Build(input_shape) ==
    /\ layer.n_weights < 4 * MaxBuilds
    /\ LET r == build(layer, input_shape)
       IN  /\ layer' = r.self
           /\ last' = [ op |-> "build", arg |-> input_shape,
                        raised |-> r.raised, message |-> r.message ]
    /\ UNCHANGED <<kwargs, restored>>

\* layer.call(inputs)
Call(inputs) ==
    /\ LET r == call(layer, inputs, None)
       IN  last' = IF r.raised = None
                   THEN [op |-> "call", arg |-> inputs] @@ r
                   ELSE [op |-> "call"] @@ r
    /\ UNCHANGED <<kwargs, layer, restored>>

\* layer.compute_output_shape(input_shape)
ComputeOutputShape(input_shape) ==
    /\ last' = [ op |-> "compute_output_shape", arg |-> input_shape,
                 ret |-> compute_output_shape(layer, input_shape) ]
    /\ UNCHANGED <<kwargs, layer, restored>>

\* layer.compute_mask(inputs, input_mask)
ComputeMask(input_mask) ==
    /\ last' = [ op |-> "compute_mask", arg |-> input_mask,
                 ret |-> compute_mask(layer, None, input_mask) ]
    /\ UNCHANGED <<kwargs, layer, restored>>

\* layer.get_config()
GetConfig ==
    /\ last' = [op |-> "get_config", ret |-> get_config(layer)]
    /\ UNCHANGED <<kwargs, layer, restored>>

\* MultiHeadAttention(**config), for the config get_config returned
FromConfig ==
    /\ last.op = "get_config"
    /\ restored' = MultiHeadAttention(last.ret)
    /\ last' = [op |-> "from_config", arg |-> last.ret]
    /\ UNCHANGED <<kwargs, layer>>

----------------------------------------------------------------------------
(* Specifications *)

\* the life of one instance: construction, then build and call in any order
Init == \E kw \in DefaultArgs : Construct(kw)

Next ==
    \/ \E x \in BuildShapes : Build(x)
    \/ \E x \in CallInputs : Call(x)

Spec == Init /\ [][Next]_vars

\* the shape and mask functions, applied once to any argument within the
\* bounds
NextPure ==
    \/ \E x \in AllShapes : last.op = "__init__" /\ ComputeOutputShape(x)
    \/ \E m \in AllMasks : last.op = "__init__" /\ ComputeMask(m)

SpecPure == Init /\ [][NextPure]_vars

\* self-attention: every operation on a single argument
NextSelf ==
    \/ \E x \in SelfShapes : Build(x)
    \/ \E x \in SelfShapes : ComputeOutputShape(x)
    \/ \E m \in SelfMasks : ComputeMask(m)
    \/ \E x \in SelfInputs : Call(x)

SpecSelf == Init /\ [][NextSelf]_vars

\* configuration: construction with every kind of strategy argument, build,
\* get_config and reconstruction
InitConfig == \E kw \in ConfigArgs : Construct(kw)

NextConfig ==
    \/ \E x \in SelfShapes : Build(x)
    \/ GetConfig
    \/ FromConfig

SpecConfig == InitConfig /\ [][NextConfig]_vars

----------------------------------------------------------------------------
(* Properties *)

\* the query and the value an argument stands for, read off the argument
QueryOf(x) == x.items[1]
KeyOf(x)   == IF x.list THEN x.items[2] ELSE x.items[1]
ValueOf(x) == IF x.list THEN x.items[3] ELSE x.items[1]

Kernels(l) == <<l.Wq, l.Wk, l.Wv, l.Wo>>

AllUnset(l) == \A n \in 1..4 : Kernels(l)[n] = None

AllSet(l) == \A n \in 1..4 : Kernels(l)[n] # None

BuildFailed == last.op = "build" /\ last.raised = Str("IndexError")

CallReturned == last.op = "call" /\ last.raised = None

\* C1: build raises IndexError exactly when the value shape's last dimension
\* is not a multiple of head_num, for a single shape and for a list of three
\* shapes; when it is a multiple, build succeeds and the layer is built with
\* its four weights.
C1_Divisibility ==
    last.op = "build" =>
        LET feature_dim == Last(ValueOf(last.arg))
        IN  /\ (last.raised = Str("IndexError"))
                   <=> (feature_dim % layer.head_num # 0)
            /\ (feature_dim % layer.head_num = 0)
                   => /\ last.raised = None
                      /\ layer.built
                      /\ AllSet(layer)
                      /\ layer.Wo.shape = <<feature_dim, feature_dim>>

\* a build of [query, key, value] is rejected although head_num divides the
\* query's feature dimension
C1_Witness ==
    /\ BuildFailed
    /\ last.arg.list
    /\ Last(QueryOf(last.arg)) % layer.head_num = 0
    /\ layer.head_num > 1

\* C2: when head_num divides the value shape's last dimension, the shape
\* compute_output_shape returns has the query shape's leading dimensions and
\* the value shape's last dimension, for a single shape and for a list.
C2_ShapeLaw ==
    (last.op = "compute_output_shape"
        /\ Last(ValueOf(last.arg)) % layer.head_num = 0)
    => /\ Len(last.ret) = Len(QueryOf(last.arg))
       /\ ButLast(last.ret) = ButLast(QueryOf(last.arg))
       /\ Last(last.ret) = Last(ValueOf(last.arg))

\* a list whose query differs from the value in length and feature dimension
C2_Witness ==
    /\ last.op = "compute_output_shape"
    /\ last.arg.list
    /\ layer.head_num > 1
    /\ Last(ValueOf(last.arg)) % layer.head_num = 0
    /\ Last(QueryOf(last.arg)) # Last(ValueOf(last.arg))
    /\ QueryOf(last.arg)[2] # ValueOf(last.arg)[2]
    /\ QueryOf(last.arg)[2] # KeyOf(last.arg)[2]

\* C3: compute_mask returns the first mask of a list of three, and returns
\* any other input mask (None included) as it is.
C3_MaskPropagation ==
    last.op = "compute_mask" =>
        /\ last.arg.list => last.ret = last.arg.items[1]
        /\ ~last.arg.list => last.ret = Value(last.arg)

\* a list of three different masks, the key's being None
C3_Witness ==
    /\ last.op = "compute_mask"
    /\ last.arg.list
    /\ last.arg.items[1] # None
    /\ last.arg.items[2] = None
    /\ last.arg.items[3] # None
    /\ last.arg.items[3] # last.arg.items[1]

\* C4: an operation on a single argument T has the outcome the same operation
\* has on the list [T, T, T]: build raises or succeeds alike and allocates
\* weights of the same shapes, compute_output_shape and compute_mask return
\* the same value, and call makes the same invocations of the attention
\* primitive and returns the same tensor.
C4_SelfAttention ==
    /\ (last.op = "build" /\ ~last.arg.list) =>
          LET r == build(MultiHeadAttention(kwargs), Thrice(last.arg))
          IN  /\ r.raised = last.raised
              /\ r.message = last.message
              /\ last.raised = None =>
                    \A n \in 1..4 :
                        Kernels(r.self)[n].shape = Kernels(layer)[n].shape
    /\ (last.op = "compute_output_shape" /\ ~last.arg.list) =>
          last.ret = compute_output_shape(layer, Thrice(last.arg))
    /\ (last.op = "compute_mask" /\ ~last.arg.list) =>
          last.ret = compute_mask(layer, None, Thrice(last.arg))
    /\ (CallReturned /\ ~last.arg.list) =>
          LET r == call(layer, Thrice(last.arg), None)
          IN  /\ r.raised = None
              /\ r.dispatched = last.dispatched
              /\ r.concat = last.concat
              /\ r.ret = last.ret

\* a forward call on a single tensor, with more than one head
C4_Witness ==
    /\ CallReturned
    /\ ~last.arg.list
    /\ layer.head_num > 1
    /\ last.head_dim > 1

\* C5: after a successful build each of Wq, Wk, Wv and Wo was allocated with
\* the layer's kernel_initializer, kernel_regularizer and kernel_constraint.
C5_KernelStrategies ==
    layer.built =>
        \A n \in 1..4 :
            /\ Kernels(layer)[n].initializer = layer.kernel_initializer
            /\ Kernels(layer)[n].regularizer = layer.kernel_regularizer
            /\ Kernels(layer)[n].constraint = layer.kernel_constraint

ConfigKeys ==
    { "head_num", "activation", "kernel_initializer", "kernel_regularizer",
      "kernel_constraint", "history_only" }

\* C6: before and after build, get_config returns a mapping holding head_num,
\* activation, kernel_initializer, kernel_regularizer, kernel_constraint and
\* history_only as they were set at construction, and the layer constructed
\* from that mapping has no weights, is not built and has the same get_config.
C6_ConfigRoundTrip ==
    /\ last.op = "get_config" =>
          /\ ConfigKeys \subseteq DOMAIN last.ret
          /\ \A key \in ConfigKeys :
                /\ last.ret[key] = layer[key]
                /\ last.ret[key] = MultiHeadAttention(kwargs)[key]
          /\ last.ret.head_num = kwargs.head_num
          /\ last.ret.history_only = kwargs.history_only
    /\ restored # None =>
          /\ AllUnset(restored)
          /\ ~restored.built
          /\ get_config(restored) = get_config(layer)
          /\ \A key \in ConfigKeys : restored[key] = layer[key]

\* a built layer, constructed from names, and its reconstruction
C6_Witness ==
    /\ layer.built
    /\ restored # None
    /\ kwargs.activation = Str("relu")
    /\ kwargs.kernel_regularizer = Str("l2")
    /\ kwargs.kernel_constraint = None
    /\ kwargs.history_only

\* C7, as claimed: the weights are unset until the first successful build,
\* are allocated by it exactly once, and no later operation (build or call)
\* replaces a weight that is set.
C7_AllocatedOnce ==
    /\ [](layer.n_weights = 0 => AllUnset(layer))
    /\ [][\A n \in 1..4 :
            Kernels(layer)[n] # None => Kernels(layer')[n] = Kernels(layer)[n]]_vars

\* C7, amended: the weights are unset until the first successful build; the
\* weights change only in a successful build, which allocates each of the
\* four once; a call and a failed build leave the layer as it was.
C7_WeightLifecycle ==
    /\ [](layer.n_weights = 0 => AllUnset(layer) /\ ~layer.built)
    /\ [][Kernels(layer') # Kernels(layer) =>
            /\ last'.op = "build" /\ last'.raised = None
            /\ layer'.n_weights = layer.n_weights + 4
            /\ \A n \in 1..4 :
                  /\ Kernels(layer')[n] # None
                  /\ Kernels(layer')[n].index = layer.n_weights + n]_vars
    /\ [][last'.op = "call" => layer' = layer]_vars
    /\ [][(last'.op = "build" /\ last'.raised = None) =>
            Kernels(layer') # Kernels(layer)]_vars

\* a forward call has returned on a layer built once
C7_Witness ==
    /\ CallReturned
    /\ layer.n_weights = 4
    /\ AllSet(layer)

\* C8: in a forward call whose value has the feature dimension the layer was
\* built with, head i is given the slice [i*head_dim, (i+1)*head_dim) of each
\* of the projected query, key and value, head_dim being feature_dim \div
\* head_num; the slices are disjoint and cover 0..feature_dim-1; the outputs
\* are concatenated in the order of the heads, to width feature_dim.
C8_HeadSlices ==
    (CallReturned /\ last.feature_dim = layer.Wo.shape[1]) =>
        LET fd == layer.Wo.shape[1]
            hd == fd \div layer.head_num
            d  == last.dispatched
            cols(n) == d[n].begin .. (d[n].end - 1)
        IN  /\ Len(d) = layer.head_num
            /\ \A n \in 1..Len(d) :
                  /\ d[n].i = n - 1
                  /\ d[n].begin = (n - 1) * hd
                  /\ d[n].end = n * hd
                  /\ \A t \in {d[n].q, d[n].k, d[n].v} :
                        /\ Head(t.expr) = Tok("slice", (n - 1) * hd, n * hd)
                        /\ Last(t.shape) = hd
            /\ \A n, m \in 1..Len(d) : n # m => cols(n) \cap cols(m) = {}
            /\ UNION { cols(n) : n \in 1..Len(d) } = 0..(fd - 1)
            /\ last.concat.expr =
                  <<Tok("concatenate", layer.head_num, 0)>>
                  \o [n \in 1..layer.head_num |-> Tok("attention", n, hd)]
            /\ Last(last.concat.shape) = fd

\* a forward call on [query, key, value] with two heads of width two
C8_Witness ==
    /\ CallReturned
    /\ last.arg.list
    /\ layer.head_num = 2
    /\ last.head_dim = 2
    /\ Last(QueryOf(last.arg).shape) # Last(ValueOf(last.arg).shape)

\* C9: a forward call invokes the attention primitive head_num times, once
\* for each head index in order, each time with the history_only flag the
\* layer was constructed with.
C9_CausalFlag ==
    CallReturned =>
        /\ Len(last.dispatched) = kwargs.head_num
        /\ \A n \in 1..Len(last.dispatched) :
              /\ last.dispatched[n].i = n - 1
              /\ last.dispatched[n].name = <<layer.name, "Att", n>>
              /\ last.dispatched[n].history_only = kwargs.history_only

\* a forward call with two heads on a layer constructed with history_only
C9_Witness ==
    /\ CallReturned
    /\ kwargs.history_only
    /\ layer.head_num = 2
    /\ ~last.arg.list

\* C10: a build that raises IndexError leaves the layer as it was, so a layer
\* never built successfully has no weight and is not marked built; a forward
\* call returns only on a built layer whose feature dimension is a multiple
\* of head_num.
C10_FailedBuild ==
    /\ [][(last'.op = "build" /\ last'.raised = Str("IndexError")) =>
            layer' = layer]_vars
    /\ []((BuildFailed /\ layer.n_weights = 0) =>
            AllUnset(layer) /\ ~layer.built)
    /\ [](~layer.built => AllUnset(layer))
    /\ [](CallReturned =>
            /\ layer.built
            /\ AllSet(layer)
            /\ last.feature_dim % layer.head_num = 0
            /\ layer.Wo.shape[1] % layer.head_num = 0)

\* a first build has failed: nothing is allocated
C10_Witness ==
    /\ BuildFailed
    /\ layer.n_weights = 0
    /\ ~layer.built

====
